---- MODULE Spec2Model ----
\* Multi-agent conversation graph: runner loop (graph/runner.py), graph
\* topology (graph/builder.py) and node functions (graph/nodes.py).
EXTENDS Integers, Sequences, FiniteSets, TLC

\* ------------------------------------------------------------------ bounds
\* Number of input lines the runner reads in one session.
MaxTurns == 2
\* Number of events one specialist run streams to its stream_handler.
MaxEvents == 1
\* Number of list/search tool calls in one specialist run.
MaxFetches == 2
\* Length of the longest emails / events list a tool function is given.
MaxCached == 2
\* calls of notify_connected_clis in one behaviour of the webhook server
MaxNotifies == 2

\* --------------------------------------------------------------- constants
\* nodes.py:81 / nodes.py:347  existing_messages[-5:]
ContextWindow == 5

\* A state key that was never written (state.get(key, default) gives default).
Absent == "<absent>"
\* A JSON value that is not a string (null, number): it has no .upper().
NonStr == "<non-string>"

\* ------------------------------------------------------------------ inputs
Queries == {"email me my calendar"}
HelpCommands == {"/help", "/commands"}
MemoryCommands == {"/history", "/memory", "/context"}
\* The lines typed at the prompt, as input("\nYou: ").strip() returns them:
\* an empty line, one command of each kind, and the queries.
Lines == {"", "/help", "/memory"} \cup Queries

\* Tokens of the orchestrator's raw text.  A brace, a run of other text, or
\* one "key": value member of a JSON object.
LB == [k |-> "{", v |-> ""]
RB == [k |-> "}", v |-> ""]
TXT == [k |-> "text", v |-> ""]
Field(key, val) == [k |-> key, v |-> val]
IsMember(t) == t.k \notin {"{", "}", "text"}

AgentTypeValues == {"gmail", "calendar", "both", "orchestrator", "terminate", "weather", NonStr}
ExecutionOrderValues == {"gmail_first", "calendar_first", "parallel"}
GmailInstructionValues == {"gmail part"}
CalendarInstructionValues == {"calendar part"}

OptField(key, vals) == {<<>>} \cup {<<Field(key, x)>> : x \in vals}

\* Every JSON object the model lets the LLM write: each routing field is
\* present with one of its values, or left out.
RoutingObjects ==
    {<<LB>> \o a \o e \o g \o c \o <<RB>> :
        a \in OptField("agent_type", AgentTypeValues),
        e \in OptField("execution_order", ExecutionOrderValues),
        g \in OptField("gmail_instruction", GmailInstructionValues),
        c \in OptField("calendar_instruction", CalendarInstructionValues)}

\* Outputs with no brace-delimited span, or a span that is not JSON.
MalformedOutputs ==
    {<<>>, <<TXT>>, <<LB>>, <<RB>>, <<RB, LB>>, <<LB, TXT, RB>>,
     <<LB, Field("agent_type", "calendar")>>,
     <<LB, Field("agent_type", "both"), TXT, RB>>}

Surroundings == {<<>>, <<TXT>>, <<LB>>, <<RB>>}

\* Raw outputs used in the conversation model: the objects that carry an
\* execution_order only together with agent_type "both" and that carry both
\* instructions or none, and three malformed texts.
OrchOutputs ==
    {o \in RoutingObjects :
        /\ (\E i \in 1..Len(o) : o[i].k = "execution_order")
              => (\E i \in 1..Len(o) : o[i] = Field("agent_type", "both"))
        /\ (\E i \in 1..Len(o) : o[i].k = "gmail_instruction")
              <=> (\E i \in 1..Len(o) : o[i].k = "calendar_instruction")}
    \cup {<<TXT>>, <<LB, TXT, RB>>, <<RB, LB>>}
\* Raw outputs used for the parser alone: objects inside incidental text.
OrchOutputsWide ==
    MalformedOutputs \cup
    {p \o o \o s : p \in Surroundings, o \in RoutingObjects, s \in Surroundings}

\* Events of a specialist run's stream: a FunctionToolCallEvent carrying a
\* tool name, or an event of another class (here: the tool's result event).
CallEvent(tool) == [cls |-> "FunctionToolCallEvent", tool_name |-> tool]
ResultEvent(tool) == [cls |-> "FunctionToolResultEvent", tool_name |-> tool]
EventValues == {CallEvent("end_conversation"), CallEvent("list_emails"),
                ResultEvent("end_conversation")}
EventStreams == UNION {[1..n -> EventValues] : n \in 0..MaxEvents}

\* Where a specialist run raises: nowhere, while building its tools
\* (get_*_tools), or inside agent.run after the events were streamed.
RaisePoints == {"none", "tools", "run"}
\* str(e) of the exception raised; an exception built without arguments has
\* the empty text.
ExceptionTexts == {""}

Specialists == {"gmail_agent", "calendar_agent"}

\* A cached result set: state["emails"] / state["events"] and deps.emails /
\* deps.events.  The key may be missing from the state, hold None, or hold a
\* list.
AbsentCache == [kind |-> "absent", items |-> <<>>]
NoneCache == [kind |-> "None", items |-> <<>>]
ListOf(xs) == [kind |-> "list", items |-> xs]
\* What one call of a list/search tool gets back from the service.
FetchResults == {<<>>, <<"new 1">>}
\* The list/search calls of one specialist run, in order.
FetchRuns == UNION {[1..n -> FetchResults] : n \in 0..MaxFetches}
\* A run whose tools fetch nothing.
NoFetchRuns == {<<>>}
\* The result set a previous turn left in the state.
PriorItems == {<<"old 1", "old 2">>}

\* The state before any tool function has been called.
NoCall == [tool |-> "none"]

VARIABLES
    \* UnifiedState channels (graph/state.py)
    messages, user_query, agent_response, continue_conversation,
    agent_type, execution_order, gmail_instruction, calendar_instruction,
    \* the node the graph runs next, "AwaitingInput" when interrupted before
    \* user_input, "END", or "raised" when an exception left the graph run
    pc,
    \* position of run_gmail_graph: "astream", "input" or "returned"
    runner,
    \* number of lines read so far and the last line read
    turn, line,
    \* the orchestrator LLM's last raw output, and whether that call raised
    response_text, orchestrator_raised,
    \* locals of the last specialist run
    conversation_context, tool_calls, end_conversation_called, raised_at,
    \* specialist runs of the current graph run, in order of start
    run_log,
    \* whether the first specialist of this graph run saw end_conversation
    first_end,
    \* UnifiedState channels emails and events
    emails, events,
    \* what the list/search tools of the last specialist run fetched, in order
    fetched,
    \* the last call of a tool function: its arguments, the deps it was given
    \* and what it did
    call,
    \* the rows of the name_to_email table
    contacts,
    \* webhook_server.py: the module's list of accepted websockets
    active_cli_connections,
    \* the websockets whose client has not closed the connection
    client_open,
    \* position of each websocket's cli_websocket handler
    ws_pc,
    \* position of notify_connected_clis, the index of its list iterator,
    \* the websocket it is sending to, and its local list disconnected
    notify_pc, notify_idx, notify_ws, disconnected,
    \* number of calls of notify_connected_clis so far
    notifies

state_vars == <<messages, user_query, agent_response, continue_conversation,
                agent_type, execution_order, gmail_instruction, calendar_instruction>>
run_vars == <<conversation_context, tool_calls, end_conversation_called, raised_at,
              run_log, first_end>>
cache_vars == <<emails, events, fetched>>
server_vars == <<active_cli_connections, client_open, ws_pc, notify_pc, notify_idx,
                 notify_ws, disconnected, notifies>>
tool_vars == <<call, contacts, server_vars>>
graph_vars == <<state_vars, pc, runner, turn, line, response_text, orchestrator_raised,
                run_vars, cache_vars>>
vars == <<graph_vars, tool_vars>>

\* ------------------------------------------------------- webhook server
\* The websocket objects of the CLIs that may connect.
WebSockets == {"ws1", "ws2"}

\* webhook_server.py 29: no CLI has connected and nothing is being notified
InitServer ==
    /\ active_cli_connections = <<>>
    /\ client_open = {}
    /\ ws_pc = [w \in WebSockets |-> "idle"]
    /\ notify_pc = "idle"
    /\ notify_idx = 0
    /\ notify_ws = Absent
    /\ disconnected = <<>>
    /\ notifies = 0

\* x in list
InList(list, x) == \E i \in 1..Len(list) : list[i] = x

\* list.remove(x) on a list that holds x: the first occurrence is deleted
ListRemove(list, x) ==
    LET i == CHOOSE k \in 1..Len(list) : list[k] = x /\ \A j \in 1..(k-1) : list[j] # x
    IN  SubSeq(list, 1, i - 1) \o SubSeq(list, i + 1, Len(list))

\* webhook_server.py 146-147: "for ws in disconnected: remove(ws)".  The
\* result is the list left and whether a remove raised ValueError, which
\* ends the loop.
RECURSIVE RemoveAll(_, _)
RemoveAll(list, gone) ==
    IF gone = <<>> THEN [list |-> list, raised |-> FALSE]
    ELSE IF ~InList(list, Head(gone)) THEN [list |-> list, raised |-> TRUE]
    ELSE RemoveAll(ListRemove(list, Head(gone)), Tail(gone))

\* ----------------------------------------------------------- state access
\* state.get(key, default)
Get(value, default) == IF value = Absent THEN default ELSE value

\* graph/state.py: messages is Annotated[List[dict], add_messages].  The
\* reducer appends the update to the history; a {"role", "content"} dict is
\* coerced to a message object whose type is "human" or "ai".
MessageType(role) == IF role = "user" THEN "human" ELSE "ai"
\* a reducer that puts the update in front of the history
add_messages_Prepend(left, right) ==
    [i \in 1..Len(right) |->
        [type |-> MessageType(right[i].role), content |-> right[i].content]] \o left
add_messages(left, right) ==
    left \o [i \in 1..Len(right) |->
                [type |-> MessageType(right[i].role), content |-> right[i].content]]

\* config/settings.py: INTERRUPT_BEFORE = ["user_input"]
INTERRUPT_BEFORE == {"user_input"}
\* Where the graph stands after a step whose successor is target: it stops
\* before a node listed in interrupt_before.
Goto(target) == IF target \in INTERRUPT_BEFORE THEN "AwaitingInput" ELSE target

\* nodes.py: should_continue (continue_conversation is set from the initial
\* state on, so the default of state.get is never used)
should_continue(cc) == IF cc THEN "continue" ELSE "end"

\* builder.py: path map of the conditional edge leaving user_input
UserInputPathMap == [continue |-> "orchestrator", end |-> "END"]

\* builder.py: path map of the conditional edge leaving orchestrator
RoutePathMap == [gmail_agent |-> "gmail_agent", calendar_agent |-> "calendar_agent"]

\* LangGraph resolves a router's return value through the edge's path map;
\* a value that is not a key of the map raises KeyError inside the node's
\* task, whose writes are then not applied.
BranchTarget(result, path_map) ==
    IF result \in DOMAIN path_map THEN path_map[result] ELSE "KeyError"

\* route_to_agent with the execution_order test of the "both" branch left out
route_to_agent_GmailAlways(at, eo) ==
    LET a == Get(at, "gmail")
    IN  IF a = "terminate" THEN "END"
        ELSE IF a = "calendar" THEN "calendar_agent"
        ELSE "gmail_agent"

\* nodes.py: route_to_agent
route_to_agent(at, eo) ==
    LET a == Get(at, "gmail")
        e == Get(eo, "gmail_first")
    IN  IF a = "terminate" THEN "END"
        ELSE IF a = "calendar" THEN "calendar_agent"
        ELSE IF a = "both"
             THEN IF e = "calendar_first" THEN "calendar_agent" ELSE "gmail_agent"
        ELSE "gmail_agent"

\* ------------------------------------------------- orchestrator's parsing
\* str.find("{"): 1-based index of the first "{", 0 when there is none
Find(text) ==
    IF \E i \in 1..Len(text) : text[i] = LB
    THEN CHOOSE i \in 1..Len(text) : text[i] = LB /\ \A j \in 1..(i-1) : text[j] # LB
    ELSE 0
\* str.rfind("}"): 1-based index of the last "}", 0 when there is none
RFind(text) ==
    IF \E i \in 1..Len(text) : text[i] = RB
    THEN CHOOSE i \in 1..Len(text) : text[i] = RB /\ \A j \in (i+1)..Len(text) : text[j] # RB
    ELSE 0

\* response_text[json_start:json_end]
JsonSpan(text) ==
    IF Find(text) <= RFind(text) THEN SubSeq(text, Find(text), RFind(text)) ELSE <<>>

\* json.loads succeeds on the span: one object, members only inside it.
JsonLoads(s) ==
    /\ Len(s) >= 2
    /\ s[1] = LB
    /\ s[Len(s)] = RB
    /\ \A i \in 2..(Len(s)-1) : IsMember(s[i])

\* parsed.get(key) with the empty text for a missing key
DictGet_EmptyDefault(s, key, default) ==
    IF \E i \in 1..Len(s) : s[i].k = key
    THEN s[CHOOSE i \in 1..Len(s) : s[i].k = key /\ \A j \in (i+1)..Len(s) : s[j].k # key].v
    ELSE ""

\* parsed.get(key, default): a repeated key keeps its last value
DictGet(s, key, default) ==
    IF \E i \in 1..Len(s) : s[i].k = key
    THEN s[CHOOSE i \in 1..Len(s) : s[i].k = key /\ \A j \in (i+1)..Len(s) : s[j].k # key].v
    ELSE default

\* nodes.py 238-243 and 279-284: the decision used when parsing fails
DefaultDecision(uq) ==
    [agent_type |-> "gmail", execution_order |-> "gmail_first",
     gmail_instruction |-> uq, calendar_instruction |-> uq]

\* the inner try block without the failure of json.loads: the fields are read
\* from whatever lies between the braces
ParseRouting_NoJsonCheck(text, uq) ==
    IF Find(text) > 0 /\ RFind(text) > 0
    THEN [agent_type |-> DictGet(JsonSpan(text), "agent_type", "gmail"),
          execution_order |-> DictGet(JsonSpan(text), "execution_order", "gmail_first"),
          gmail_instruction |-> DictGet(JsonSpan(text), "gmail_instruction", uq),
          calendar_instruction |-> DictGet(JsonSpan(text), "calendar_instruction", uq)]
    ELSE DefaultDecision(uq)

\* nodes.py 221-243: the inner try block
ParseRouting(text, uq) ==
    IF Find(text) > 0 /\ RFind(text) > 0 /\ JsonLoads(JsonSpan(text))
    THEN [agent_type |-> DictGet(JsonSpan(text), "agent_type", "gmail"),
          execution_order |-> DictGet(JsonSpan(text), "execution_order", "gmail_first"),
          gmail_instruction |-> DictGet(JsonSpan(text), "gmail_instruction", uq),
          calendar_instruction |-> DictGet(JsonSpan(text), "calendar_instruction", uq)]
    ELSE DefaultDecision(uq)

\* nodes.py 207-284: the routing fields orchestrator_node returns.  The LLM
\* call raising, or agent_type.upper() on a value that is not a string, ends
\* in the outer except block.
OrchestratorDecision(text, llm_raised, uq) ==
    IF llm_raised \/ ParseRouting(text, uq).agent_type = NonStr
    THEN DefaultDecision(uq)
    ELSE ParseRouting(text, uq)

\* the update carrying continue_conversation = False for every decision
OrchestratorContinue_AlwaysFalse(decision, cc) == FALSE

\* nodes.py 252-260: continue_conversation is part of the update only for terminate
OrchestratorContinue(decision, cc) ==
    IF decision.agent_type = "terminate" THEN FALSE ELSE cc

\* ------------------------------------------------------- specialist runs
\* nodes.py 112-122 / 378-388: stream_handler's tool_calls list
RECURSIVE ToolCallLog(_)
ToolCallLog(stream) ==
    IF stream = <<>> THEN <<>>
    ELSE IF Head(stream).cls = "FunctionToolCallEvent"
         THEN <<Head(stream).tool_name>> \o ToolCallLog(Tail(stream))
         ELSE ToolCallLog(Tail(stream))

\* stream_handler's flag without the isinstance test on the event
RECURSIVE EndConversationSeen_AnyEvent(_)
EndConversationSeen_AnyEvent(stream) ==
    IF stream = <<>> THEN FALSE
    ELSE \/ Head(stream).tool_name = "end_conversation"
         \/ EndConversationSeen_AnyEvent(Tail(stream))

\* nodes.py 112-122 / 378-388: stream_handler's end_conversation_called flag
RECURSIVE EndConversationSeen(_)
EndConversationSeen(stream) ==
    IF stream = <<>> THEN FALSE
    ELSE \/ (Head(stream).cls = "FunctionToolCallEvent"
                /\ Head(stream).tool_name = "end_conversation")
         \/ EndConversationSeen(Tail(stream))

\* the context built from the whole history
LastMessages_All(msgs) == msgs

\* existing_messages[-5:]
LastMessages(msgs) ==
    IF Len(msgs) <= ContextWindow THEN msgs
    ELSE SubSeq(msgs, Len(msgs) - ContextWindow + 1, Len(msgs))

\* nodes.py 88-94: role and content of a message object in the context
ContextPart(msg) ==
    [role |-> msg.type,
     content |-> IF msg.content = "" THEN "content=''" ELSE msg.content]

\* nodes.py 77-97 / 343-363: conversation_context; previous is empty when the
\* context is the bare instruction
BuildContext(msgs, instruction) ==
    [previous |-> [i \in 1..Len(LastMessages(msgs)) |-> ContextPart(LastMessages(msgs)[i])],
     question |-> instruction]
NoContext == [previous |-> <<>>, question |-> Absent]

\* state.get('emails', []) / state.get('events', []): the deps a run starts with
DepsOf(cache) == IF cache.kind = "absent" THEN ListOf(<<>>) ELSE cache
\* search_emails.py 64-67, get_unread.py 14-17, list_events.py 35-42: each
\* fetch assigns its result to deps.emails / deps.events
DepsAfter(deps, fs) == IF fs = <<>> THEN deps ELSE ListOf(fs[Len(fs)])
\* the truth value of a deps list: None and [] are false
Truthy(cache) == cache.kind = "list" /\ cache.items # <<>>
\* nodes.py 136-139 / 402-405: emails_update, events_update
CacheUpdate(cache, deps) == IF Truthy(deps) THEN deps ELSE cache

\* result.output of a run in a given turn
GmailResponse(t) == "gmail answer " \o ToString(t)
CalendarResponse(t) == "calendar answer " \o ToString(t)

\* the error text without its prefix
GmailErrorMsg_NoPrefix(e) == e

\* nodes.py 182 / 447
GmailErrorMsg(e) == "Error processing Gmail query: " \o e
CalendarErrorMsg(e) == "Error processing Calendar query: " \o e

\* the hand-off without the execution_order test
GmailGoto_AlwaysHandOff(at, eo, ended) ==
    IF Get(at, "gmail") = "both"
    THEN "calendar_agent"
    ELSE IF ended THEN "END" ELSE "user_input"

\* nodes.py 144-179: destination of gmail_agent_node's Command
GmailGoto(at, eo, ended) ==
    IF Get(at, "gmail") = "both" /\ Get(eo, "gmail_first") = "gmail_first"
    THEN "calendar_agent"
    ELSE IF ended THEN "END" ELSE "user_input"

\* the hand-off branch passing the flag itself instead of its negation
GmailContinue_HandOffInverted(at, eo, ended) ==
    IF Get(at, "gmail") = "both" /\ Get(eo, "gmail_first") = "gmail_first"
    THEN ended
    ELSE IF ended THEN FALSE ELSE TRUE

\* nodes.py 144-179: continue_conversation in gmail_agent_node's Command
GmailContinue(at, eo, ended) ==
    IF Get(at, "gmail") = "both" /\ Get(eo, "gmail_first") = "gmail_first"
    THEN ~ended
    ELSE IF ended THEN FALSE ELSE TRUE

\* nodes.py 408-444: destination of calendar_agent_node's Command
CalendarGoto(at, eo, ended) ==
    IF Get(at, "calendar") = "both" /\ Get(eo, "gmail_first") = "calendar_first"
    THEN "gmail_agent"
    ELSE IF ended THEN "END" ELSE "user_input"

\* the fallthrough branch leaving continue_conversation false
CalendarContinue_FallthroughFalse(at, eo, ended) ==
    IF Get(at, "calendar") = "both" /\ Get(eo, "gmail_first") = "calendar_first"
    THEN ~ended
    ELSE FALSE

\* nodes.py 408-444: continue_conversation in calendar_agent_node's Command
CalendarContinue(at, eo, ended) ==
    IF Get(at, "calendar") = "both" /\ Get(eo, "gmail_first") = "calendar_first"
    THEN ~ended
    ELSE IF ended THEN FALSE ELSE TRUE

\* ------------------------------------------------------------------- Init
\* runner.py: initial_state, before the first graph.astream call has run
Init ==
    /\ messages = <<>>
    /\ user_query = ""
    /\ agent_response = ""
    /\ continue_conversation = TRUE
    /\ agent_type = Absent
    /\ execution_order = Absent
    /\ gmail_instruction = Absent
    /\ calendar_instruction = Absent
    /\ pc = "START"
    /\ runner = "astream"
    /\ turn = 0
    /\ line = Absent
    /\ response_text = <<>>
    /\ orchestrator_raised = FALSE
    /\ conversation_context = NoContext
    /\ tool_calls = <<>>
    /\ end_conversation_called = FALSE
    /\ raised_at = "none"
    /\ run_log = <<>>
    /\ first_end = FALSE
    /\ emails = NoneCache
    /\ events = AbsentCache
    /\ fetched = <<>>
    /\ call = NoCall
    /\ contacts = <<>>
    /\ InitServer

\* ---------------------------------------------------------------- actions
\* builder.py: add_edge(START, "user_input"), compiled with interrupt_before
graph_start ==
    /\ runner = "astream"
    /\ pc = "START"
    /\ pc' = Goto("user_input")
    /\ UNCHANGED <<state_vars, runner, turn, line, response_text, orchestrator_raised, run_vars,
                   cache_vars, tool_vars>>

\* the loop without its two break statements
AfterStream_NoBreak(stopped_at, cc) ==
    IF stopped_at = "raised" THEN "returned" ELSE "input"

\* runner.py 88-136: where run_gmail_graph goes once graph.astream has
\* stopped at stopped_at with continue_conversation = cc: break on a false
\* flag, input() when snapshot.next is not empty, break otherwise; an
\* exception ends the function in its except block
AfterStream(stopped_at, cc) ==
    IF stopped_at = "raised" THEN "returned"
    ELSE IF ~cc THEN "returned"
    ELSE IF stopped_at = "AwaitingInput" THEN "input"
    ELSE "returned"

\* runner.py: what run_gmail_graph does once graph.astream has stopped
\* (interrupt, END, or an exception caught by its except block)
runner_after_stream ==
    /\ runner = "astream"
    /\ pc \in {"AwaitingInput", "END", "raised"}
    /\ runner' = AfterStream(pc, continue_conversation)
    /\ UNCHANGED <<state_vars, pc, turn, line, response_text, orchestrator_raised, run_vars,
                   cache_vars, tool_vars>>

\* runner.py: whether the loop does "continue" without updating the state
IsSkippedLine(l) == l = "" \/ l \in HelpCommands \/ l \in MemoryCommands

\* runner.py: one line read at the prompt.  A skipped line goes back to
\* graph.astream(None), which resumes the interrupted graph at user_input;
\* a query is written with update_state(..., as_node="user_input"), after
\* which the edge leaving user_input is followed.
runner_input ==
    /\ runner = "input"
    /\ turn < MaxTurns
    /\ \E l \in Lines :
        /\ line' = l
        /\ IF IsSkippedLine(l)
           THEN /\ pc' = "user_input"
                /\ UNCHANGED <<messages, user_query>>
           ELSE /\ user_query' = l
                /\ messages' = add_messages(messages, <<[role |-> "user", content |-> l]>>)
                /\ pc' = Goto(BranchTarget(should_continue(continue_conversation), UserInputPathMap))
    /\ turn' = turn + 1
    /\ runner' = "astream"
    \* a new graph run: the locals of the previous run's nodes are gone
    /\ run_log' = <<>>
    /\ first_end' = FALSE
    /\ response_text' = <<>>
    /\ orchestrator_raised' = FALSE
    /\ conversation_context' = NoContext
    /\ tool_calls' = <<>>
    /\ end_conversation_called' = FALSE
    /\ raised_at' = "none"
    /\ fetched' = <<>>
    /\ UNCHANGED <<agent_response, continue_conversation, agent_type, execution_order,
                   gmail_instruction, calendar_instruction, emails, events, tool_vars>>

\* nodes.py: user_input_node, then the conditional edge should_continue
user_input_node ==
    /\ runner = "astream"
    /\ pc = "user_input"
    /\ user_query' = Get(user_query, "")
    /\ continue_conversation' = TRUE
    /\ messages' = add_messages(messages, <<[role |-> "user", content |-> Get(user_query, "")]>>)
    /\ pc' = Goto(BranchTarget(should_continue(TRUE), UserInputPathMap))
    /\ UNCHANGED <<agent_response, agent_type, execution_order, gmail_instruction,
                   calendar_instruction, runner, turn, line, response_text,
                   orchestrator_raised, run_vars, cache_vars, tool_vars>>

\* nodes.py: orchestrator_node, then the conditional edge route_to_agent.
\* outputs is the set of raw texts the LLM may answer with; a call that
\* raises leaves no text.
orchestrator_node(outputs) ==
    /\ runner = "astream"
    /\ pc = "orchestrator"
    /\ \E llm_raised \in BOOLEAN : \E text \in (IF llm_raised THEN {<<>>} ELSE outputs) :
        LET decision == OrchestratorDecision(text, llm_raised, user_query)
            target == BranchTarget(route_to_agent(decision.agent_type, decision.execution_order),
                                   RoutePathMap)
        IN  /\ response_text' = text
            /\ orchestrator_raised' = llm_raised
            /\ IF target = "KeyError"
               THEN /\ pc' = "raised"
                    /\ UNCHANGED <<agent_type, execution_order, gmail_instruction,
                                   calendar_instruction, continue_conversation>>
               ELSE /\ pc' = Goto(target)
                    /\ agent_type' = decision.agent_type
                    /\ execution_order' = decision.execution_order
                    /\ gmail_instruction' = decision.gmail_instruction
                    /\ calendar_instruction' = decision.calendar_instruction
                    /\ continue_conversation' = OrchestratorContinue(decision, continue_conversation)
    /\ UNCHANGED <<messages, user_query, agent_response, runner, turn, line, run_vars,
                   cache_vars, tool_vars>>

\* the except block handing a "both" task on to the Calendar specialist
GmailErrorGoto_HandOff == "calendar_agent"

\* nodes.py 181-191: where gmail_agent_node's except block routes
GmailErrorGoto == "user_input"

\* the except block keeping a termination request that was streamed
ErrorContinue_KeepsEnd(ended) == ~ended

\* nodes.py 181-191 / 446-456: continue_conversation in the except blocks'
\* update, whatever stream_handler has seen
ErrorContinue(ended) == TRUE

\* nodes.py: gmail_agent_node.  fetch_runs is the set of list/search call
\* sequences the run's tools may make.
gmail_agent_node(fetch_runs) ==
    /\ runner = "astream"
    /\ pc = "gmail_agent"
    /\ \E rp \in RaisePoints, stream \in EventStreams, e \in ExceptionTexts, fs \in fetch_runs :
        LET ended == EndConversationSeen(stream)
            instruction == Get(gmail_instruction, user_query)
        IN  /\ rp = "tools" => (stream = <<>> /\ fs = <<>>)
            /\ rp = "none" => e = ""
            /\ raised_at' = rp
            /\ fetched' = fs
            /\ emails' = IF rp = "none"
                         THEN CacheUpdate(emails, DepsAfter(DepsOf(emails), fs))
                         ELSE emails
            /\ conversation_context' =
                 IF rp = "tools" THEN NoContext ELSE BuildContext(messages, instruction)
            /\ tool_calls' = ToolCallLog(stream)
            /\ end_conversation_called' = ended
            /\ first_end' = IF run_log = <<>> THEN ended ELSE first_end
            /\ IF rp = "none"
               THEN /\ agent_response' = GmailResponse(turn)
                    /\ messages' = add_messages(messages,
                            <<[role |-> "assistant", content |-> GmailResponse(turn)]>>)
                    /\ continue_conversation' = GmailContinue(agent_type, execution_order, ended)
                    /\ pc' = Goto(GmailGoto(agent_type, execution_order, ended))
               ELSE /\ agent_response' = GmailErrorMsg(e)
                    /\ messages' = add_messages(messages,
                            <<[role |-> "assistant", content |-> GmailErrorMsg(e)]>>)
                    /\ continue_conversation' = ErrorContinue(ended)
                    /\ pc' = Goto(GmailErrorGoto)
    /\ run_log' = Append(run_log, "gmail_agent")
    /\ UNCHANGED <<user_query, agent_type, execution_order, gmail_instruction,
                   calendar_instruction, runner, turn, line, response_text, orchestrator_raised,
                   events, tool_vars>>

\* nodes.py: calendar_agent_node.  fetch_runs is the set of list call
\* sequences the run's tools may make.
calendar_agent_node(fetch_runs) ==
    /\ runner = "astream"
    /\ pc = "calendar_agent"
    /\ \E rp \in RaisePoints, stream \in EventStreams, e \in ExceptionTexts, fs \in fetch_runs :
        LET ended == EndConversationSeen(stream)
            instruction == Get(calendar_instruction, user_query)
        IN  /\ rp = "tools" => (stream = <<>> /\ fs = <<>>)
            /\ rp = "none" => e = ""
            /\ raised_at' = rp
            /\ fetched' = fs
            /\ events' = IF rp = "none"
                         THEN CacheUpdate(events, DepsAfter(DepsOf(events), fs))
                         ELSE events
            /\ conversation_context' =
                 IF rp = "tools" THEN NoContext ELSE BuildContext(messages, instruction)
            /\ tool_calls' = ToolCallLog(stream)
            /\ end_conversation_called' = ended
            /\ first_end' = IF run_log = <<>> THEN ended ELSE first_end
            /\ IF rp = "none"
               THEN /\ agent_response' = CalendarResponse(turn)
                    /\ messages' = add_messages(messages,
                            <<[role |-> "assistant", content |-> CalendarResponse(turn)]>>)
                    /\ continue_conversation' = CalendarContinue(agent_type, execution_order, ended)
                    /\ pc' = Goto(CalendarGoto(agent_type, execution_order, ended))
               ELSE /\ agent_response' = CalendarErrorMsg(e)
                    /\ messages' = add_messages(messages,
                            <<[role |-> "assistant", content |-> CalendarErrorMsg(e)]>>)
                    /\ continue_conversation' = ErrorContinue(ended)
                    /\ pc' = Goto("user_input")
    /\ run_log' = Append(run_log, "calendar_agent")
    /\ UNCHANGED <<user_query, agent_type, execution_order, gmail_instruction,
                   calendar_instruction, runner, turn, line, response_text, orchestrator_raised,
                   emails, tool_vars>>

Next ==
    \/ graph_start
    \/ runner_after_stream
    \/ runner_input
    \/ user_input_node
    \/ orchestrator_node(OrchOutputs)
    \/ gmail_agent_node(NoFetchRuns)
    \/ calendar_agent_node(NoFetchRuns)

Spec == Init /\ [][Next]_vars

\* The conversation with every started node, LLM or tool call finishing
\* (returning or raising) and the runner going on after each graph run.
SpecFair == Init /\ [][Next]_vars /\ WF_vars(Next)

TypeOK ==
    /\ pc \in {"START", "AwaitingInput", "user_input", "orchestrator", "gmail_agent",
               "calendar_agent", "END", "raised"}
    /\ runner \in {"astream", "input", "returned"}
    /\ continue_conversation \in BOOLEAN
    /\ turn \in 0..MaxTurns

\* ----------------------------------------------- the parser on its own
\* The state in which orchestrator_node is entered on the first turn: the
\* runner has written a query with update_state and resumed the graph.
InitOrch ==
    /\ \E q \in Queries :
        /\ user_query = q
        /\ line = q
        /\ messages = add_messages(<<>>, <<[role |-> "user", content |-> q]>>)
    /\ agent_response = ""
    /\ continue_conversation = TRUE
    /\ agent_type = Absent
    /\ execution_order = Absent
    /\ gmail_instruction = Absent
    /\ calendar_instruction = Absent
    /\ pc = "orchestrator"
    /\ runner = "astream"
    /\ turn = 1
    /\ response_text = <<>>
    /\ orchestrator_raised = FALSE
    /\ conversation_context = NoContext
    /\ tool_calls = <<>>
    /\ end_conversation_called = FALSE
    /\ raised_at = "none"
    /\ run_log = <<>>
    /\ first_end = FALSE
    /\ emails = NoneCache
    /\ events = AbsentCache
    /\ fetched = <<>>
    /\ call = NoCall
    /\ contacts = <<>>
    /\ InitServer

NextOrch == orchestrator_node(OrchOutputsWide)

SpecOrch == InitOrch /\ [][NextOrch]_vars

\* ------------------------------------------- the graph resumed on its own
\* The compiled graph resumed at user_input (graph.astream(None, config) on
\* the interrupted thread) from a checkpoint whose continue_conversation
\* holds either value; the other channels are as in initial_state, with or
\* without a query written.
InitGraph ==
    /\ messages = <<>>
    /\ user_query \in {""} \cup Queries
    /\ agent_response = ""
    /\ continue_conversation \in BOOLEAN
    /\ agent_type = Absent
    /\ execution_order = Absent
    /\ gmail_instruction = Absent
    /\ calendar_instruction = Absent
    /\ pc = "user_input"
    /\ runner = "astream"
    /\ turn = 1
    /\ line = ""
    /\ response_text = <<>>
    /\ orchestrator_raised = FALSE
    /\ conversation_context = NoContext
    /\ tool_calls = <<>>
    /\ end_conversation_called = FALSE
    /\ raised_at = "none"
    /\ run_log = <<>>
    /\ first_end = FALSE
    /\ emails = NoneCache
    /\ events = AbsentCache
    /\ fetched = <<>>
    /\ call = NoCall
    /\ contacts = <<>>
    /\ InitServer

NextGraph ==
    \/ user_input_node
    \/ orchestrator_node(OrchOutputs)
    \/ gmail_agent_node(NoFetchRuns)
    \/ calendar_agent_node(NoFetchRuns)

SpecGraph == InitGraph /\ [][NextGraph]_vars

\* ------------------------------------- a graph run with fetching tools
\* The numbers of turns that may lie behind a graph run.
PriorTurns == {1, 3}
\* messages after n turns, each a query answered by the Gmail specialist
RECURSIVE History(_, _)
History(n, q) ==
    IF n = 0 THEN <<>>
    ELSE add_messages(History(n - 1, q), <<[role |-> "user", content |-> q],
                                           [role |-> "assistant", content |-> GmailResponse(n)]>>)

\* The state in which orchestrator_node is entered after 1 or 3 turns that
\* were answered by the Gmail specialist and left, in each domain, either
\* no result set or a non-empty one.
InitCache ==
    /\ \E q \in Queries, n \in PriorTurns :
        /\ user_query = q
        /\ line = q
        /\ messages = add_messages(History(n, q), <<[role |-> "user", content |-> q]>>)
        /\ agent_response = GmailResponse(n)
        /\ turn = n + 1
    /\ continue_conversation = TRUE
    /\ agent_type = "gmail"
    /\ execution_order = "gmail_first"
    /\ gmail_instruction \in Queries
    /\ calendar_instruction \in Queries
    /\ pc = "orchestrator"
    /\ runner = "astream"
    /\ response_text = <<>>
    /\ orchestrator_raised = FALSE
    /\ conversation_context = NoContext
    /\ tool_calls = <<>>
    /\ end_conversation_called = FALSE
    /\ raised_at = "none"
    /\ run_log = <<>>
    /\ first_end = FALSE
    /\ emails \in {NoneCache} \cup {ListOf(xs) : xs \in PriorItems}
    /\ events \in {AbsentCache} \cup {ListOf(xs) : xs \in PriorItems}
    /\ fetched = <<>>
    /\ call = NoCall
    /\ contacts = <<>>
    /\ InitServer

NextCache ==
    \/ orchestrator_node(OrchOutputs)
    \/ gmail_agent_node(FetchRuns)
    \/ calendar_agent_node(FetchRuns)

SpecCache == InitCache /\ [][NextCache]_vars

\* --------------------------------------- Gmail tools taking email_number
\* One entry of deps.emails as the service's list methods build it.
EmailEntry(i) == [id |-> "msg" \o ToString(i), subject |-> "subject " \o ToString(i)]
\* The values of deps.emails a tool may find: None (initial_state), or a list
\* of 0..MaxCached entries.
ToolCaches == {NoneCache} \cup {ListOf([i \in 1..n |-> EmailEntry(i)]) : n \in 0..MaxCached}
EmailNumbers == (0 - 1)..(MaxCached + 1)

EmailNumberTools ==
    {"read_email", "archive_email", "trash_email", "delete_email", "mark_email_as_read",
     "reply_to_email", "create_draft_reply", "add_label_to_email",
     "remove_label_from_email", "unsubscribe_from_email"}
LabelTools == {"add_label_to_email", "remove_label_from_email"}
\* the gmail_service method each tool calls with the resolved email id
ServiceOp ==
    [read_email |-> "get_email", archive_email |-> "archive_email",
     trash_email |-> "trash_email", delete_email |-> "delete_email",
     mark_email_as_read |-> "mark_as_read", reply_to_email |-> "reply_to_email",
     create_draft_reply |-> "create_draft_reply", add_label_to_email |-> "add_label",
     remove_label_from_email |-> "remove_label",
     unsubscribe_from_email |-> "get_unsubscribe_info"]
\* the text each tool returns for a falsy deps.emails
NoEmailsText(tool) ==
    IF tool = "read_email"
    THEN "No emails in context. Please list or search for emails first."
    ELSE IF tool \in {"create_draft_reply"}
    THEN "No emails available. Please list emails first using list_emails or search_emails."
    ELSE IF tool = "unsubscribe_from_email"
    THEN "No emails in context. Please list emails first using list_emails or search_emails."
    ELSE "No emails in context. Please list emails first."
InvalidNumberText(n) == "Invalid email number. Please choose between 1 and " \o ToString(n) \o "."
LabelNotFoundText == "Label not found. Use get_labels to see available labels."

\* str.upper() on the label texts of the model
Upper(t) ==
    IF t \in {"Work", "work", "WORK"} THEN "WORK"
    ELSE IF t \in {"Label_1", "label_1", "LABEL_1"} THEN "LABEL_1"
    ELSE IF t \in {"Travel", "TRAVEL"} THEN "TRAVEL"
    ELSE t
\* what gmail_service.get_labels() returns, and the label_name arguments
ServiceLabels == {<<>>, <<[id |-> "Label_1", name |-> "Work"]>>}
LabelNames == {"work", "label_1", "Travel"}
\* add_label.py 25-31: the id of the first label whose name or id matches
LabelMatches(labels, label_name) ==
    {i \in 1..Len(labels) : \/ Upper(labels[i].name) = Upper(label_name)
                            \/ Upper(labels[i].id) = Upper(label_name)}
\* what gmail_service.get_unsubscribe_info finds in the email
UnsubscribeKinds == {"none", "one_click", "mailto", "http"}

\* list[i] with Python's 0-based index i, for an index inside the list
At(list, i) == list[i + 1]

\* the range test rejecting the last entry
InvalidNumber_RejectsLast(email_number, n) == email_number < 1 \/ email_number >= n

\* read_email.py 19 (and the same line of every tool): the range test
InvalidNumber(email_number, n) == email_number < 1 \/ email_number > n

ServiceCall(op, id) == [op |-> op, id |-> id]

\* The body of a tool taking email_number: the text it returns, the
\* gmail_service methods it calls (with the email id passed, "" when the
\* method takes none) and whether an exception leaves it.  ok is the truth
\* value of what the service method returns, svc_raises whether the service
\* method raises (RuntimeError when not authenticated).
EmailNumberTool(tool, deps_emails, email_number, label_name, labels, unsub, ok, svc_raises) ==
    IF ~Truthy(deps_emails)
    THEN [result |-> NoEmailsText(tool), ops |-> <<>>, raised |-> FALSE]
    ELSE IF InvalidNumber(email_number, Len(deps_emails.items))
    THEN [result |-> InvalidNumberText(Len(deps_emails.items)), ops |-> <<>>, raised |-> FALSE]
    ELSE IF svc_raises
    THEN [result |-> "",
          ops |-> IF tool \in LabelTools
                  THEN <<ServiceCall("get_labels", "")>>
                  ELSE <<ServiceCall(ServiceOp[tool], At(deps_emails.items, email_number - 1).id)>>,
          raised |-> TRUE]
    ELSE IF tool \in LabelTools
    THEN IF LabelMatches(labels, label_name) = {}
         THEN [result |-> LabelNotFoundText,
               ops |-> <<ServiceCall("get_labels", "")>>, raised |-> FALSE]
         ELSE [result |-> IF ok THEN "done" ELSE "failed",
               ops |-> <<ServiceCall("get_labels", ""),
                         ServiceCall(ServiceOp[tool], At(deps_emails.items, email_number - 1).id)>>,
               raised |-> FALSE]
    ELSE IF tool = "unsubscribe_from_email"
    THEN [result |-> IF unsub = "none" THEN "No unsubscribe mechanism found in this email."
                     ELSE "Found unsubscribe options",
          ops |-> <<ServiceCall(ServiceOp[tool], At(deps_emails.items, email_number - 1).id)>>
                  \o (IF unsub = "one_click" THEN <<ServiceCall("unsubscribe_one_click", "")>>
                      ELSE IF unsub = "mailto" THEN <<ServiceCall("create_draft", "")>>
                      ELSE <<>>),
          raised |-> FALSE]
    ELSE [result |-> IF ok THEN "done" ELSE "failed",
          ops |-> <<ServiceCall(ServiceOp[tool], At(deps_emails.items, email_number - 1).id)>>,
          raised |-> FALSE]

\* The state before any tool has been called: the graph as run_gmail_graph
\* builds it.
InitTools ==
    /\ messages = <<>>
    /\ user_query = ""
    /\ agent_response = ""
    /\ continue_conversation = TRUE
    /\ agent_type = Absent
    /\ execution_order = Absent
    /\ gmail_instruction = Absent
    /\ calendar_instruction = Absent
    /\ pc = "START"
    /\ runner = "astream"
    /\ turn = 0
    /\ line = Absent
    /\ response_text = <<>>
    /\ orchestrator_raised = FALSE
    /\ conversation_context = NoContext
    /\ tool_calls = <<>>
    /\ end_conversation_called = FALSE
    /\ raised_at = "none"
    /\ run_log = <<>>
    /\ first_end = FALSE
    /\ emails = NoneCache
    /\ events = AbsentCache
    /\ fetched = <<>>
    /\ call = NoCall
    /\ contacts = <<>>
    /\ InitServer

\* one call of a Gmail tool taking email_number
email_number_tool ==
    /\ \E tool \in EmailNumberTools, deps_emails \in ToolCaches, email_number \in EmailNumbers,
          label_name \in LabelNames, labels \in ServiceLabels, unsub \in UnsubscribeKinds,
          ok \in BOOLEAN, svc_raises \in BOOLEAN :
        /\ tool \notin LabelTools => (label_name = "work" /\ labels = <<>>)
        /\ tool # "unsubscribe_from_email" => unsub = "none"
        /\ (tool = "unsubscribe_from_email" \/ svc_raises) => ok
        /\ call' = [tool |-> tool, emails |-> deps_emails, email_number |-> email_number,
                    label_name |-> label_name, labels |-> labels]
                   @@ EmailNumberTool(tool, deps_emails, email_number, label_name, labels,
                                      unsub, ok, svc_raises)
    /\ UNCHANGED <<graph_vars, contacts, server_vars>>

NextGmailTools == email_number_tool

SpecGmailTools == InitTools /\ [][NextGmailTools]_vars

\* ------------------------------------------- lookup_event_by_reference
\* A Python str is a sequence of one-character strings.
UpperLetters == <<"A", "B", "C", "D", "E", "F", "G", "H", "I", "J", "K", "L", "M", "N", "O", "P", "Q", "R", "S", "T", "U", "V", "W", "X", "Y", "Z">>
LowerLetters == <<"a", "b", "c", "d", "e", "f", "g", "h", "i", "j", "k", "l", "m", "n", "o", "p", "q", "r", "s", "t", "u", "v", "w", "x", "y", "z">>
Digits == <<"0", "1", "2", "3", "4", "5", "6", "7", "8", "9">>
\* str.lower()
LowerChar(c) ==
    IF \E i \in 1..26 : UpperLetters[i] = c
    THEN LowerLetters[CHOOSE i \in 1..26 : UpperLetters[i] = c]
    ELSE c
Lower(t) == [i \in 1..Len(t) |-> LowerChar(t[i])]
\* str.strip()
RECURSIVE LStrip(_)
LStrip(t) == IF t # <<>> /\ Head(t) = " " THEN LStrip(Tail(t)) ELSE t
RECURSIVE RStrip(_)
RStrip(t) == IF t # <<>> /\ t[Len(t)] = " " THEN RStrip(SubSeq(t, 1, Len(t) - 1)) ELSE t
Strip(t) == RStrip(LStrip(t))
\* str.isdigit() on ASCII text
IsDigit(t) == t # <<>> /\ \A i \in 1..Len(t) : \E d \in 1..10 : Digits[d] = t[i]
\* int() of a digit string
DigitValue(c) == (CHOOSE d \in 1..10 : Digits[d] = c) - 1
RECURSIVE ParseInt(_)
ParseInt(t) == IF t = <<>> THEN 0 ELSE 10 * ParseInt(SubSeq(t, 1, Len(t) - 1)) + DigitValue(t[Len(t)])
\* sub in t
Contains(sub, t) ==
    \E i \in 0..(Len(t) - Len(sub)) : SubSeq(t, i + 1, i + Len(sub)) = sub

\* lookup_event.py 28-31: number_words, in the dict's insertion order
NumberWords ==
    <<[word |-> <<"f", "i", "r", "s", "t">>, num |-> 1], [word |-> <<"s", "e", "c", "o", "n", "d">>, num |-> 2],
      [word |-> <<"t", "h", "i", "r", "d">>, num |-> 3], [word |-> <<"f", "o", "u", "r", "t", "h">>, num |-> 4],
      [word |-> <<"f", "i", "f", "t", "h">>, num |-> 5], [word |-> <<"1", "s", "t">>, num |-> 1],
      [word |-> <<"2", "n", "d">>, num |-> 2], [word |-> <<"3", "r", "d">>, num |-> 3],
      [word |-> <<"4", "t", "h">>, num |-> 4], [word |-> <<"5", "t", "h">>, num |-> 5]>>
\* "no number": event_number is None
NoNumber == 0 - 1

\* lookup_event.py 34-46: event_number
EventNumber(reference) ==
    LET ref_lower == Strip(Lower(reference))
        hits == {i \in 1..Len(NumberWords) : Contains(NumberWords[i].word, ref_lower)}
    IN  IF \E i \in 1..Len(NumberWords) : NumberWords[i].word = ref_lower
        THEN NumberWords[CHOOSE i \in 1..Len(NumberWords) : NumberWords[i].word = ref_lower].num
        ELSE IF IsDigit(ref_lower) THEN ParseInt(ref_lower)
        ELSE IF hits # {} THEN NumberWords[CHOOSE i \in hits : \A j \in hits : i <= j].num
        ELSE NoNumber

\* lookup_event.py 59-64: the 1-based positions of the events whose title
\* contains the reference or is contained in it
TitleMatches(deps_events, reference) ==
    {i \in 1..Len(deps_events) :
        \/ Contains(Lower(reference), Lower(deps_events[i].summary))
        \/ Contains(Lower(deps_events[i].summary), Lower(reference))}

\* lookup_event.py 24-67: the text returned, as its template and the values
\* formatted into it
lookup_event_by_reference(deps_events, reference) ==
    LET n == EventNumber(reference)
        hits == TitleMatches(deps_events.items, reference)
        first_hit == CHOOSE i \in hits : \A j \in hits : i <= j
    IN  IF ~Truthy(deps_events)
        THEN [text |-> "No events in context", id |-> "", number |-> NoNumber]
        ELSE IF n # NoNumber
        THEN IF 1 <= n /\ n <= Len(deps_events.items)
             THEN [text |-> "Event ID", id |-> At(deps_events.items, n - 1).id, number |-> n]
             ELSE [text |-> "Event number not found", id |-> "", number |-> n]
        ELSE IF hits # {}
        THEN [text |-> "Event ID", id |-> deps_events.items[first_hit].id, number |-> first_hit]
        ELSE [text |-> "Could not find event matching", id |-> "", number |-> NoNumber]

\* Titles of the cached events and the references passed to the tool.
EventEntries ==
    {[id |-> "evLunch", summary |-> <<"L", "u", "n", "c", "h">>],
     [id |-> "evFirstAid", summary |-> <<"F", "i", "r", "s", "t", " ", "A", "i", "d">>],
     [id |-> "evTeamLunch", summary |-> <<"T", "e", "a", "m", " ", "L", "u", "n", "c", "h">>]}
\* deps.events: state.get('events', []) or what list_upcoming_events stored
EventCaches == {ListOf(xs) : xs \in UNION {[1..n -> EventEntries] : n \in 0..MaxCached}}
\* References that denote an ordinal, with the ordinal they denote.
OrdinalReferences ==
    {[reference |-> <<"0">>, k |-> 0], [reference |-> <<"2">>, k |-> 2],
     [reference |-> <<"3">>, k |-> 3], [reference |-> <<" ", "S", "e", "c", "o", "n", "d", " ">>, k |-> 2],
     [reference |-> <<"2", "n", "d">>, k |-> 2], [reference |-> <<"f", "i", "r", "s", "t">>, k |-> 1]}
\* References that are the title of an event.
TitleReferences == {e.summary : e \in EventEntries}
References == {r.reference : r \in OrdinalReferences} \cup TitleReferences

\* one call of lookup_event_by_reference
lookup_event_call ==
    /\ \E deps_events \in EventCaches, reference \in References :
        call' = [tool |-> "lookup_event_by_reference", events |-> deps_events,
                 reference |-> reference, raised |-> FALSE]
                @@ lookup_event_by_reference(deps_events, reference)
    /\ UNCHANGED <<graph_vars, contacts, server_vars>>

NextLookup == lookup_event_call

SpecLookup == InitTools /\ [][NextLookup]_vars

\* ------------------------------------------------- the contacts database
\* The name and email arguments of the database tools.
ContactNames == {<<"A", "n", "n">>, <<"B", "o", "b">>}
ContactEmails == {"Ann@X.com", "ann@x.com", "ann@work.com", "bob@x.com"}
\* email.lower()
EmailLower(email) == IF email = "Ann@X.com" THEN "ann@x.com" ELSE email
\* Contact.name.search(person_name, flags=2): re.search of a pattern without
\* metacharacters, case ignored
NameSearch(person_name, name) == Contains(Lower(person_name), Lower(name))

\* add_contact.py 34: the rows whose email is the lower-cased email or whose
\* name is name
ExistingContacts(rows, name, email) ==
    {i \in 1..Len(rows) : rows[i].email = EmailLower(email) \/ rows[i].name = name}
\* add_contact.py 36-50: the table after the call.  db.update rewrites the
\* rows whose email is the lower-cased email; db.insert appends a row.  (The
\* notes and date fields of a row are left out.)
ContactsAfterAdd(rows, name, email) ==
    IF ExistingContacts(rows, name, email) # {}
    THEN [i \in 1..Len(rows) |->
            IF rows[i].email = EmailLower(email)
            THEN [name |-> name, email |-> EmailLower(email)]
            ELSE rows[i]]
    ELSE Append(rows, [name |-> name, email |-> EmailLower(email)])
\* query_database.py 25: the rows the search returns
QueryResults(rows, person_name) ==
    {rows[i] : i \in {j \in 1..Len(rows) : NameSearch(person_name, rows[j].name)}}

\* add_contact.py / email_database.py: add_email_to_database
add_email_to_database ==
    /\ \E name \in ContactNames, email \in ContactEmails :
        /\ contacts' = ContactsAfterAdd(contacts, name, email)
        /\ call' = [tool |-> "add_email_to_database", name |-> name, email |-> email,
                    result |-> IF ExistingContacts(contacts, name, email) # {}
                               THEN "Updated contact" ELSE "Added new contact"]
    /\ UNCHANGED <<graph_vars, server_vars>>

\* query_database.py / email_database.py: query_email_database
query_email_database ==
    /\ \E person_name \in ContactNames :
        call' = [tool |-> "query_email_database", person_name |-> person_name,
                 found |-> QueryResults(contacts, person_name)]
    /\ UNCHANGED <<graph_vars, contacts, server_vars>>

NextContacts ==
    \/ add_email_to_database
    \/ query_email_database

SpecContacts == InitTools /\ [][NextContacts]_vars

\* ------------------------------------------------------- webhook server
\* webhook_server.py 153-154: a CLI connects; accept() returns and the
\* websocket is appended before the next await
cli_websocket_accept(w) ==
    /\ ws_pc[w] = "idle"
    /\ active_cli_connections' = Append(active_cli_connections, w)
    /\ client_open' = client_open \cup {w}
    /\ ws_pc' = [ws_pc EXCEPT ![w] = "welcome"]
    /\ UNCHANGED <<notify_pc, notify_idx, notify_ws, disconnected, notifies,
                   graph_vars, call, contacts>>

\* the CLI closes its end of the connection
client_close(w) ==
    /\ w \in client_open
    /\ client_open' = client_open \ {w}
    /\ UNCHANGED <<active_cli_connections, ws_pc, notify_pc, notify_idx, notify_ws,
                   disconnected, notifies, graph_vars, call, contacts>>

\* webhook_server.py 158-162: the welcome message, sent outside the try
\* block.  Sending to a closed connection raises or goes unnoticed.
cli_websocket_welcome(w) ==
    /\ ws_pc[w] = "welcome"
    /\ \E send_raises \in BOOLEAN :
        /\ send_raises => w \notin client_open
        /\ ws_pc' = [ws_pc EXCEPT ![w] = IF send_raises THEN "raised" ELSE "listening"]
    /\ UNCHANGED <<active_cli_connections, client_open, notify_pc, notify_idx, notify_ws,
                   disconnected, notifies, graph_vars, call, contacts>>

\* webhook_server.py 164-177: receive_text() on a closed connection raises
\* WebSocketDisconnect (unguarded remove) or another exception (guarded
\* remove); a remove of a websocket that is not in the list raises
\* ValueError out of the handler
cli_websocket_disconnect(w) ==
    /\ ws_pc[w] = "listening"
    /\ w \notin client_open
    /\ \E exc \in {"WebSocketDisconnect", "Exception"} :
        IF InList(active_cli_connections, w)
        THEN /\ active_cli_connections' = ListRemove(active_cli_connections, w)
             /\ ws_pc' = [ws_pc EXCEPT ![w] = "done"]
        ELSE /\ active_cli_connections' = active_cli_connections
             /\ ws_pc' = [ws_pc EXCEPT ![w] =
                            IF exc = "WebSocketDisconnect" THEN "ValueError" ELSE "done"]
    /\ UNCHANGED <<client_open, notify_pc, notify_idx, notify_ws, disconnected, notifies,
                   graph_vars, call, contacts>>

\* webhook_server.py 133-135: notify_connected_clis is called
notify_start ==
    /\ notify_pc \in {"idle", "done", "ValueError"}
    /\ notifies < MaxNotifies
    /\ notifies' = notifies + 1
    /\ notify_pc' = "loop"
    /\ notify_idx' = 0
    /\ notify_ws' = Absent
    /\ disconnected' = <<>>
    /\ UNCHANGED <<active_cli_connections, client_open, ws_pc, graph_vars, call, contacts>>

\* webhook_server.py 137-139: the list iterator yields the next websocket
\* of the list as it is now, and send_json is awaited; when the index has
\* reached the length of the list the loop ends and, with no await in
\* between, the websockets in disconnected are removed (146-147)
notify_next ==
    /\ notify_pc = "loop"
    /\ IF notify_idx < Len(active_cli_connections)
       THEN /\ notify_idx' = notify_idx + 1
            /\ notify_ws' = active_cli_connections[notify_idx + 1]
            /\ notify_pc' = "sending"
            /\ UNCHANGED <<active_cli_connections, disconnected>>
       ELSE /\ active_cli_connections' = RemoveAll(active_cli_connections, disconnected).list
            /\ notify_pc' = IF RemoveAll(active_cli_connections, disconnected).raised
                            THEN "ValueError" ELSE "done"
            /\ UNCHANGED <<notify_idx, notify_ws, disconnected>>
    /\ UNCHANGED <<client_open, ws_pc, notifies, graph_vars, call, contacts>>

\* webhook_server.py 138-143: send_json returns, or raises on a closed
\* connection and the websocket is put on disconnected
notify_sent ==
    /\ notify_pc = "sending"
    /\ \E send_raises \in BOOLEAN :
        /\ send_raises => notify_ws \notin client_open
        /\ disconnected' = IF send_raises THEN Append(disconnected, notify_ws)
                           ELSE disconnected
    /\ notify_pc' = "loop"
    /\ notify_ws' = Absent
    /\ UNCHANGED <<active_cli_connections, client_open, ws_pc, notify_idx, notifies,
                   graph_vars, call, contacts>>

NextServer ==
    \/ \E w \in WebSockets : cli_websocket_accept(w)
    \/ \E w \in WebSockets : client_close(w)
    \/ \E w \in WebSockets : cli_websocket_welcome(w)
    \/ \E w \in WebSockets : cli_websocket_disconnect(w)
    \/ notify_start
    \/ notify_next
    \/ notify_sent

SpecServer == InitTools /\ [][NextServer]_vars

\* ------------------------------------------------------------ properties
InSeq(x, s) == \E i \in 1..Len(s) : s[i] = x
OtherSpecialist(n) == IF n = "gmail_agent" THEN "calendar_agent" ELSE "gmail_agent"
\* orchestrator_node has returned in the current graph run
OrchestratorReturned == pc \notin {"START", "user_input", "orchestrator"} /\ turn > 0
                        /\ (response_text # <<>> \/ orchestrator_raised)
\* the decision orchestrator_node returned in the current graph run
ReturnedDecision == OrchestratorDecision(response_text, orchestrator_raised, user_query)

\* C1: in a turn routed with agent_type = both, once the specialist that ran
\* first has seen an end_conversation tool call (and has not raised), the
\* other specialist is not invoked and the graph is at END with
\* continue_conversation = false.
C1_TerminationPrecedence ==
    (/\ agent_type = "both"
     /\ run_log # <<>>
     /\ first_end
     /\ (Len(run_log) = 1 => raised_at = "none"))
    => (/\ Len(run_log) = 1
        /\ pc = "END"
        /\ ~continue_conversation)

C3_BothRunsEachOnce ==
    (/\ agent_type = "both"
     /\ pc = "AwaitingInput"
     /\ run_log # <<>>
     /\ raised_at = "none"
     /\ ~first_end
     /\ ~end_conversation_called)
    => (/\ Len(run_log) = 2
        /\ run_log[2] = OtherSpecialist(run_log[1])
        /\ run_log[1] = IF execution_order = "calendar_first"
                        THEN "calendar_agent" ELSE "gmail_agent")

\* The first "{" comes before the last "}" and only object members lie between.
SpanIsObject(text) ==
    \E i, j \in 1..Len(text) :
        /\ i < j
        /\ text[i] = LB /\ \A h \in 1..(i-1) : text[h] # LB
        /\ text[j] = RB /\ \A h \in (j+1)..Len(text) : text[h] # RB
        /\ \A h \in (i+1)..(j-1) : IsMember(text[h])
HasKey(text, key) == \E i \in 1..Len(text) : text[i].k = key
\* the routing fields of the state are exactly the default decision
StateIsDefault ==
    /\ agent_type = "gmail"
    /\ execution_order = "gmail_first"
    /\ gmail_instruction = user_query
    /\ calendar_instruction = user_query

\* C4 as stated: an output with no brace-delimited span, with a span that is
\* not JSON, or with a JSON object lacking agent_type yields exactly the
\* default decision.
C4_UnparseableGivesDefault ==
    (/\ OrchestratorReturned
     /\ ~orchestrator_raised
     /\ (~SpanIsObject(response_text) \/ ~HasKey(response_text, "agent_type")))
    => (pc # "raised" /\ StateIsDefault)

\* C4 amended: an output with no brace-delimited span or with a span that is
\* not JSON yields exactly the default decision; a JSON object lacking
\* agent_type yields agent_type = gmail and keeps every routing field it does
\* carry, only the absent ones taking their default.
C4_MalformedGivesDefault ==
    (OrchestratorReturned /\ ~orchestrator_raised)
    => (/\ ~SpanIsObject(response_text) => (pc # "raised" /\ StateIsDefault)
        /\ (SpanIsObject(response_text) /\ ~HasKey(response_text, "agent_type"))
             => (/\ pc # "raised"
                 /\ agent_type = "gmail"
                 /\ HasKey(response_text, "execution_order")
                      => InSeq(Field("execution_order", execution_order), response_text)
                 /\ ~HasKey(response_text, "execution_order")
                      => execution_order = "gmail_first"
                 /\ HasKey(response_text, "gmail_instruction")
                      => InSeq(Field("gmail_instruction", gmail_instruction), response_text)
                 /\ ~HasKey(response_text, "gmail_instruction")
                      => gmail_instruction = user_query
                 /\ HasKey(response_text, "calendar_instruction")
                      => InSeq(Field("calendar_instruction", calendar_instruction), response_text)
                 /\ ~HasKey(response_text, "calendar_instruction")
                      => calendar_instruction = user_query))

C4_Witness ==
    /\ OrchestratorReturned
    /\ ~orchestrator_raised
    /\ Find(response_text) > 0
    /\ RFind(response_text) > Find(response_text)
    /\ ~SpanIsObject(response_text)
    /\ StateIsDefault

\* C5: when the orchestrator's decision is agent_type = terminate, the graph
\* run goes straight to END with continue_conversation = false and without a
\* specialist run.
C5_TerminateShortcut ==
    (OrchestratorReturned /\ ReturnedDecision.agent_type = "terminate")
    => (/\ pc = "END"
        /\ ~continue_conversation
        /\ run_log = <<>>)

\* C6: when the orchestrator's decision is agent_type = orchestrator, no
\* specialist runs in that turn.
C6_OrchestratorNoSpecialist ==
    (OrchestratorReturned /\ ReturnedDecision.agent_type = "orchestrator")
    => (pc \notin Specialists /\ run_log = <<>>)

\* C7: once orchestrator_node has returned, agent_type in the state is one of
\* gmail, calendar, both, orchestrator, terminate.
C7_AgentTypeInEnum ==
    agent_type # Absent
    => agent_type \in {"gmail", "calendar", "both", "orchestrator", "terminate"}

\* C8: a specialist step that raises appends exactly one assistant message
\* with a non-empty text, sets continue_conversation and stops before
\* user_input; the exception does not leave the graph run.
C8_ErrorContained ==
    [][(pc \in Specialists /\ raised_at' # "none")
        => (/\ Len(messages') = Len(messages) + 1
            /\ SubSeq(messages', 1, Len(messages)) = messages
            /\ messages'[Len(messages')].type = "ai"
            /\ messages'[Len(messages')].content # ""
            /\ agent_response' = messages'[Len(messages')].content
            /\ continue_conversation'
            /\ pc' = "AwaitingInput")]_vars

C8_Witness ==
    /\ run_log # <<>>
    /\ raised_at = "run"
    /\ end_conversation_called
    /\ pc = "AwaitingInput"

\* C9: after an empty line or a /help, /commands, /history, /memory or
\* /context line has been read, messages and user_query stay as they are and
\* neither the orchestrator nor a specialist is scheduled until the next line
\* is read.
C9_SkippedLineNoEffect ==
    [][(line' # Absent /\ IsSkippedLine(line'))
        => (/\ messages' = messages
            /\ user_query' = user_query
            /\ pc' \notin ({"orchestrator"} \cup Specialists))]_vars

RunCount(n, log) == Cardinality({i \in 1..Len(log) : log[i] = n})
\* a step that appends exactly one message of the given type to the history
AppendsOne(type) ==
    /\ Len(messages') = Len(messages) + 1
    /\ SubSeq(messages', 1, Len(messages)) = messages
    /\ messages'[Len(messages')].type = type

\* C11: a specialist step that completes a gmail or calendar task, or the
\* second half of a both task, without raising and without having seen an
\* end_conversation call, is that specialist's only run of the turn, appends
\* one assistant message, leaves continue_conversation true and stops the
\* graph before user_input.
C11_SpecialistReturnsToInput ==
    [][(/\ pc \in Specialists
        /\ raised_at' = "none"
        /\ ~end_conversation_called'
        /\ \/ (agent_type = "gmail" /\ pc = "gmail_agent")
           \/ (agent_type = "calendar" /\ pc = "calendar_agent")
           \/ (agent_type = "both" /\ run_log # <<>>))
        => (/\ RunCount(pc, run_log') = 1
            /\ pc' = "AwaitingInput"
            /\ continue_conversation'
            /\ AppendsOne("ai")
            /\ messages'[Len(messages')].content = agent_response')]_vars

C11_Witness ==
    /\ agent_type = "both"
    /\ run_log = <<"gmail_agent", "calendar_agent">>
    /\ raised_at = "none"
    /\ ~end_conversation_called
    /\ continue_conversation
    /\ pc = "AwaitingInput"

\* C12: the graph stands at one node at a time; within one graph run no
\* specialist runs twice, calendar_agent runs after gmail_agent only when
\* agent_type = both and execution_order = gmail_first, gmail_agent runs after
\* calendar_agent only when agent_type = both and execution_order =
\* calendar_first, and a specialist that is about to run second is not the
\* one that ran first.
C12_NoSpecialistTwice ==
    /\ \A n \in Specialists : RunCount(n, run_log) <= 1
    /\ (pc \in Specialists /\ run_log # <<>>) => run_log = <<OtherSpecialist(pc)>>
    /\ (run_log # <<>> /\ (Len(run_log) = 2 \/ pc \in Specialists))
         => (/\ agent_type = "both"
             /\ execution_order = IF run_log[1] = "gmail_agent"
                                  THEN "gmail_first" ELSE "calendar_first")

C12_Witness ==
    /\ run_log = <<"calendar_agent">>
    /\ pc = "gmail_agent"
    /\ execution_order = "calendar_first"

\* C13: continue_conversation is true in the initial state, and whenever it
\* is false the current graph run holds a termination signal: a specialist
\* run that saw an end_conversation tool call, or an orchestrator decision
\* of agent_type = terminate.
C13_FalseOnlyOnTermination ==
    /\ (turn = 0 => continue_conversation)
    /\ ~continue_conversation
         => \/ (run_log # <<>> /\ end_conversation_called
                /\ InSeq("end_conversation", tool_calls))
            \/ (OrchestratorReturned /\ ReturnedDecision.agent_type = "terminate")

C13_Witness ==
    /\ ~continue_conversation
    /\ pc = "END"
    /\ runner = "returned"
    /\ run_log = <<"calendar_agent">>
    /\ tool_calls = <<"end_conversation">>

\* the graph run of the current turn has stopped
GraphRunStopped == turn > 0 /\ pc \in {"AwaitingInput", "END", "raised"}
\* the texts a specialist node can append in the current turn
ResponsesOf(n) ==
    IF n = "gmail_agent"
    THEN {GmailResponse(turn)} \cup {GmailErrorMsg(e) : e \in ExceptionTexts}
    ELSE {CalendarResponse(turn)} \cup {CalendarErrorMsg(e) : e \in ExceptionTexts}

\* C17: once the graph run started by a submitted query has stopped, no
\* exception has left it, and it stands at END or stands before user_input
\* with an assistant message as the last entry of messages.
C17_NothingEscapesTurn ==
    (GraphRunStopped /\ ~IsSkippedLine(line))
    => (/\ pc # "raised"
        /\ pc = "AwaitingInput"
             => (run_log # <<>> /\ messages[Len(messages)].type = "ai"))

\* C18: every step leaves messages as it is or appends exactly one entry to
\* it.  The entry a specialist step appends is that specialist's response;
\* any other appended entry is the user's query, and it is appended before
\* any specialist of the graph run has finished.
C18_MessagesAppendOnly ==
    [][\/ messages' = messages
       \/ /\ pc \in Specialists
          /\ AppendsOne("ai")
          /\ messages'[Len(messages')].content \in ResponsesOf(pc)
          /\ run_log' = Append(run_log, pc)
       \/ /\ pc \notin Specialists
          /\ AppendsOne("human")
          /\ messages'[Len(messages')].content = user_query'
          /\ run_log' = <<>>]_vars

C18_Witness ==
    /\ turn = 2
    /\ Len(messages) = 5
    /\ messages[3].type = "human"
    /\ messages[4] = [type |-> "ai", content |-> CalendarResponse(2)]
    /\ messages[5] = [type |-> "ai", content |-> GmailResponse(2)]
    /\ run_log = <<"calendar_agent", "gmail_agent">>

C14_CacheIsLastFetch ==
    (run_log # <<>> /\ raised_at = "none" /\ fetched # <<>>)
    => IF run_log[Len(run_log)] = "gmail_agent"
       THEN emails = ListOf(fetched[Len(fetched)])
       ELSE events = ListOf(fetched[Len(fetched)])

\* the last call was made by a Gmail tool taking email_number
IsEmailNumberCall == call.tool \in EmailNumberTools
\* email_number lies in 1..N for the list the tool was given
NumberInRange ==
    /\ call.emails.kind = "list"
    /\ call.email_number >= 1
    /\ call.email_number <= Len(call.emails.items)
\* the tool called its gmail_service method with the id of the cached entry
\* at 0-based index email_number - 1
ActedOnEntry ==
    /\ NumberInRange
    /\ InSeq(ServiceCall(ServiceOp[call.tool], At(call.emails.items, call.email_number - 1).id),
             call.ops)
\* the tool returned one of its two error texts, called nothing, raised nothing
RejectedNumber ==
    /\ call.result \in {NoEmailsText(call.tool), InvalidNumberText(Len(call.emails.items))}
    /\ call.ops = <<>>
    /\ ~call.raised
\* the gmail_service methods called with an email id all got the same id
OneEntryOnly == \A i, j \in 1..Len(call.ops) :
                    (call.ops[i].id # "" /\ call.ops[j].id # "") => call.ops[i].id = call.ops[j].id

\* C15 as stated: a tool taking email_number acts on the cached entry at
\* index email_number - 1 exactly when 1 <= email_number <= N, and otherwise
\* returns an error text, calls no Gmail operation and raises nothing.
C15_ActsIffInRange ==
    IsEmailNumberCall
    => (/\ ~call.raised => (ActedOnEntry <=> NumberInRange)
        /\ ~NumberInRange => RejectedNumber)

\* C15 amended: outside 1..N (N = 0 and a missing list included) the tool
\* returns an error text, calls no Gmail operation and raises nothing.  Inside
\* 1..N every tool but the two label tools calls its Gmail operation on the
\* entry at index email_number - 1 and on no other entry; add_label_to_email
\* and remove_label_from_email do so exactly when label_name matches, case
\* ignored, the name or id of a label that get_labels returned, and otherwise
\* return the label-not-found text having called get_labels alone.
C15_ActsIffInRangeAndLabelKnown ==
    IsEmailNumberCall
    => (/\ ~NumberInRange => RejectedNumber
        /\ NumberInRange => OneEntryOnly
        /\ (NumberInRange /\ call.tool \notin LabelTools) => ActedOnEntry
        /\ (NumberInRange /\ call.tool \in LabelTools /\ ~call.raised)
             => (/\ ActedOnEntry <=> LabelMatches(call.labels, call.label_name) # {}
                 /\ ~ActedOnEntry => (/\ call.result = LabelNotFoundText
                                      /\ call.ops = <<ServiceCall("get_labels", "")>>)))

C15_Witness ==
    /\ call.tool = "remove_label_from_email"
    /\ Len(call.emails.items) = 2
    /\ call.email_number = 2
    /\ call.label_name = "label_1"
    /\ call.ops = <<ServiceCall("get_labels", ""), ServiceCall("remove_label", "msg2")>>

\* the last call was a call of lookup_event_by_reference
IsLookupCall == call.tool = "lookup_event_by_reference"
\* the ordinal the reference of the last call denotes, NoNumber for a title
DenotedOrdinal ==
    IF \E r \in OrdinalReferences : r.reference = call.reference
    THEN (CHOOSE r \in OrdinalReferences : r.reference = call.reference).k
    ELSE NoNumber
\* the ids of the cached events whose title is the reference
IdsCarryingTitle ==
    {call.events.items[i].id : i \in {j \in 1..Len(call.events.items) :
                                        call.events.items[j].summary = call.reference}}

\* C16, ordinal half: a reference denoting ordinal k yields the id of the
\* cached event at index k - 1 when 1 <= k <= N and a not-found text
\* otherwise, and nothing is raised.
C16_OrdinalResolves ==
    (IsLookupCall /\ DenotedOrdinal # NoNumber)
    => (/\ ~call.raised
        /\ IF 1 <= DenotedOrdinal /\ DenotedOrdinal <= Len(call.events.items)
           THEN /\ call.text = "Event ID"
                /\ call.id = At(call.events.items, DenotedOrdinal - 1).id
           ELSE /\ call.text \in {"Event number not found", "No events in context"}
                /\ call.id = "")

\* C16: the ordinal half, and a reference that is the title of a cached
\* event and not an ordinal yields the id of an event carrying that title.
C16_LookupByReference ==
    /\ C16_OrdinalResolves
    /\ (IsLookupCall /\ DenotedOrdinal = NoNumber /\ IdsCarryingTitle # {})
        => (call.text = "Event ID" /\ call.id \in IdsCarryingTitle)

\* C19: after add_email_to_database(name, email) the table holds a row with
\* that name and the lower-cased email, and query_email_database(name) on
\* that table returns it, whatever the table held before.
C19_AddThenQueryFinds ==
    call.tool = "add_email_to_database"
    => (/\ InSeq([name |-> call.name, email |-> EmailLower(call.email)], contacts)
        /\ [name |-> call.name, email |-> EmailLower(call.email)]
               \in QueryResults(contacts, call.name))

\* C21: once a graph run has ended at END with continue_conversation false,
\* no line is read and no node runs any more: the only step left is the
\* runner leaving its loop, after which nothing changes.
C21_TerminatedIsFinal ==
    [][(pc = "END" /\ ~continue_conversation)
        => (/\ runner' = "returned"
            /\ UNCHANGED <<state_vars, pc, turn, line, run_vars, cache_vars>>)]_vars

C21_Witness ==
    /\ pc = "END"
    /\ ~continue_conversation
    /\ runner = "returned"
    /\ turn = 2
    /\ agent_type = "both"

\* the routing objects that the raw output holds between two pieces of
\* incidental text, and whose agent_type is a string other than terminate
EmbeddedObjects ==
    {o \in RoutingObjects :
        /\ \E p \in Surroundings, q \in Surroundings : response_text = p \o o \o q
        /\ DictGet(o, "agent_type", "gmail") \notin {NonStr, "terminate"}}
\* the routing fields of the state are those of object o, an absent field
\* taking its default
StateHoldsObject(o) ==
    /\ agent_type = DictGet(o, "agent_type", "gmail")
    /\ execution_order = DictGet(o, "execution_order", "gmail_first")
    /\ gmail_instruction = DictGet(o, "gmail_instruction", user_query)
    /\ calendar_instruction = DictGet(o, "calendar_instruction", user_query)

\* C22: when the raw output is one routing object between two pieces of
\* incidental text, braces in that text included, the routing fields of the
\* state are the fields of that object.
C22_ObjectInTextIsStored ==
    (OrchestratorReturned /\ ~orchestrator_raised)
    => \A o \in EmbeddedObjects : StateHoldsObject(o)

\* C23: a step of orchestrator_node leaves messages, agent_response,
\* user_query, emails and events as they are, whether the output parsed, failed
\* to parse or the LLM call raised, and changes continue_conversation only
\* for a terminate decision.
C23_OrchestratorFrame ==
    [][pc = "orchestrator"
        => (/\ UNCHANGED <<messages, agent_response, user_query, emails, events>>
            /\ continue_conversation' # continue_conversation
                 => OrchestratorDecision(response_text', orchestrator_raised', user_query).agent_type
                        = "terminate")]_vars

C23_Witness ==
    /\ OrchestratorReturned
    /\ orchestrator_raised
    /\ pc = "gmail_agent"
    /\ StateIsDefault
    /\ Len(messages) >= 3
    /\ messages[Len(messages)].type = "human"
    /\ agent_response = GmailResponse(1)
    /\ emails.kind = "list"

\* messages as the last specialist run found it, before its own response
HistorySeen == SubSeq(messages, 1, Len(messages) - 1)
\* the instruction of the specialist that ran last
InstructionOfLastRun ==
    IF run_log[Len(run_log)] = "gmail_agent"
    THEN Get(gmail_instruction, user_query)
    ELSE Get(calendar_instruction, user_query)

\* C24: the context a specialist run builds holds the last min(5, n) of
\* the n entries of messages, in their order, with their roles and texts,
\* and then the run's instruction; with no entry it is the instruction
\* alone.
C24_ContextWindow ==
    (run_log # <<>> /\ raised_at # "tools")
    => LET n == Len(HistorySeen)
           k == IF n <= 5 THEN n ELSE 5
       IN  /\ Len(conversation_context.previous) = k
           /\ \A i \in 1..k :
                /\ conversation_context.previous[i].role = HistorySeen[n - k + i].type
                /\ HistorySeen[n - k + i].content # ""
                     => conversation_context.previous[i].content = HistorySeen[n - k + i].content
           /\ conversation_context.question = InstructionOfLastRun

C24_Witness ==
    /\ run_log = <<"calendar_agent">>
    /\ raised_at = "none"
    /\ Len(messages) = 8
    /\ Len(conversation_context.previous) = 5
    /\ conversation_context.previous[1] = [role |-> "human", content |-> user_query]
    /\ conversation_context.previous[5] = [role |-> "human", content |-> user_query]
    /\ conversation_context.question = "calendar part"

\* the instruction field of the specialist that ran last
InstructionKeyOfLastRun ==
    IF run_log[Len(run_log)] = "gmail_agent" THEN "gmail_instruction"
    ELSE "calendar_instruction"
\* the orchestrator's output names one specialist
SelectsSingleSpecialist ==
    /\ ~orchestrator_raised
    /\ JsonLoads(response_text)
    /\ DictGet(response_text, "agent_type", Absent) \in {"gmail", "calendar"}

\* C25: when the orchestrator's output names a single specialist and has
\* no instruction field for it, the specialist run of the turn is asked
\* the turn's whole user_query.
C25_DefaultInstructionIsQuery ==
    (/\ Len(run_log) = 1
     /\ raised_at # "tools"
     /\ SelectsSingleSpecialist
     /\ ~HasKey(response_text, InstructionKeyOfLastRun))
    => conversation_context.question = user_query

C25_Witness ==
    /\ run_log = <<"calendar_agent">>
    /\ raised_at = "none"
    /\ pc = "AwaitingInput"
    /\ response_text = <<LB, Field("agent_type", "calendar"), RB>>
    /\ agent_type = "calendar"
    /\ conversation_context.question = user_query
    /\ turn = 2

\* the text a specialist appends when its run does not raise
ResponseOf(n) == IF n = "gmail_agent" THEN GmailResponse(turn) ELSE CalendarResponse(turn)

\* C26: when the first specialist run of a "both" task raises, the graph
\* run stops before user_input with continue_conversation true and the
\* error text is the one assistant message after the user's; a second
\* specialist run happens only after a first run that gave its response.
C26_FirstFailureEndsTurn ==
    /\ (agent_type = "both" /\ Len(run_log) = 1 /\ raised_at # "none")
       => (/\ pc = "AwaitingInput"
           /\ continue_conversation
           /\ messages[Len(messages)].type = "ai"
           /\ messages[Len(messages)].content \in ResponsesOf(run_log[1])
           /\ messages[Len(messages)].content # ResponseOf(run_log[1])
           /\ messages[Len(messages) - 1] = [type |-> "human", content |-> user_query])
    /\ Len(run_log) = 2
       => (/\ agent_type = "both"
           /\ messages[Len(messages) - 1].content = ResponseOf(run_log[1]))

C26_Witness ==
    /\ agent_type = "both"
    /\ run_log = <<"gmail_agent">>
    /\ raised_at = "run"
    /\ pc = "AwaitingInput"
    /\ runner = "input"
    /\ messages[Len(messages)].content = GmailErrorMsg("")
    /\ continue_conversation

\* C27: when a specialist run raises after its stream reported an
\* end_conversation call, the graph run stops before user_input with
\* continue_conversation true and run_gmail_graph does not return.
C27_RaiseDiscardsTermination ==
    (run_log # <<>> /\ raised_at = "run" /\ end_conversation_called)
    => (/\ pc = "AwaitingInput"
        /\ continue_conversation
        /\ runner # "returned")

C27_Witness ==
    /\ run_log = <<"calendar_agent">>
    /\ raised_at = "run"
    /\ end_conversation_called
    /\ tool_calls = <<"end_conversation">>
    /\ continue_conversation
    /\ runner = "input"
    /\ turn = 1

\* the number of user messages in a history
UserMessageCount(msgs) == Cardinality({i \in 1..Len(msgs) : msgs[i].type = "human"})

\* C28: each submitted query is in messages once as a user message: the
\* number of user messages changes only when a line that is neither empty
\* nor a command is read, and then by one; no step of a graph run adds a
\* user message.
C28_QueryAppendedOnce ==
    [][UserMessageCount(messages') # UserMessageCount(messages)
        => (/\ runner = "input"
            /\ ~IsSkippedLine(line')
            /\ UserMessageCount(messages') = UserMessageCount(messages) + 1
            /\ messages'[Len(messages')] = [type |-> "human", content |-> line'])]_vars

\* C29: every turn ends: once the orchestrator is scheduled the graph run
\* stops before user_input or at END, after at most two specialist runs,
\* whatever agent_type and execution_order are.
C29_TurnTerminates ==
    (pc = "orchestrator") ~> (pc \in {"AwaitingInput", "END"} /\ Len(run_log) <= 2)

\* no call of notify_connected_clis is under way and every handler has
\* ended or serves a connection that is still open
HandlersFinished ==
    /\ notify_pc \in {"idle", "done", "ValueError"}
    /\ \A w \in WebSockets :
         \/ ws_pc[w] \in {"idle", "done", "raised", "ValueError"}
         \/ (ws_pc[w] = "listening" /\ w \in client_open)
\* the websockets of the list
ListedSockets == {active_cli_connections[i] : i \in 1..Len(active_cli_connections)}

\* C30: whatever the interleaving of notify_connected_clis with the
\* connect and disconnect handlers, no remove is tried on a websocket that
\* is not in active_cli_connections, and once all handlers have finished
\* the list holds the websockets still connected, each once.
C30_RemovedOnceListExact ==
    /\ notify_pc # "ValueError"
    /\ \A w \in WebSockets : ws_pc[w] # "ValueError"
    /\ HandlersFinished
         => (/\ ListedSockets = client_open
             /\ Len(active_cli_connections) = Cardinality(client_open))

====
